---- MODULE Spec2Model ----
(***************************************************************************)
(* A model of pysme/grid_conv.py: l1_norm, double_increments and           *)
(* calc_rate.                                                              *)
(*                                                                         *)
(* Numbers.  The arithmetic of double_increments stays inside the ring     *)
(* Z[1/2][sqrt 2, sqrt 3] when the inputs are integers, so a number is     *)
(* modelled exactly as <<a, b, c, d, e>>, standing for                     *)
(*      (a + b*sqrt(2) + c*sqrt(3) + d*sqrt(6)) / 2^e                      *)
(* in lowest terms (e = 0 or one of a, b, c, d odd).  Floating-point       *)
(* rounding is not modelled.                                               *)
(*                                                                         *)
(* Arrays.  A NumPy array is a reference [buf, start, step, len] into a    *)
(* heap of buffers; basic slicing x[i::k] yields a reference into the same *)
(* buffer (a view), arithmetic allocates a fresh buffer.                   *)
(***************************************************************************)
EXTENDS Integers, Sequences, FiniteSets, TLC

VARIABLES heap,      \* the buffers: a sequence of [nd, v], indexed by buffer id
          heap0,     \* the buffers as the caller built them (before any call)
          args,      \* the caller's arguments: [rho_0, times, U1s, U2s]
          pc,        \* the position of the caller / of calc_rate
          ret,       \* what double_increments returned: [exc, out]
          locals,    \* the local variables of the running calc_rate
          calls,     \* the integrate calls of the running calc_rate, in order
          memo,      \* what a deterministic integrator answered, by arguments
          integDet,  \* whether the integrator's output is a function of its arguments
          rng,       \* the number of draws made from the random source
          outcomes   \* how each calc_rate invocation ended, in order

vars == <<heap, heap0, args, pc, ret, locals, calls, memo, integDet, rng,
          outcomes>>

rateVars == <<locals, calls, memo, integDet, rng, outcomes>>

-----------------------------------------------------------------------------
(* Bounds of the model *)

\* the largest number of increments (len(times) - 1) of a 1-D input
MaxN == 6
\* the largest number of rows N of a batch U1s of shape (N, n)
MaxRows == 2
\* the largest number of increments n of a batch U1s of shape (N, n)
MaxCols == 2

\* the standard-normal samples the inputs are drawn from
Vals == {0, 1}

-----------------------------------------------------------------------------
(* Exact numbers of Z[1/2][sqrt 2, sqrt 3] *)

RECURSIVE Pow2(_)
Pow2(k) == IF k <= 0 THEN 1 ELSE 2 * Pow2(k - 1)

RECURSIVE Lg(_)
Lg(m) == IF m <= 1 THEN 0 ELSE 1 + Lg(m \div 2)

Max(i, j) == IF i >= j THEN i ELSE j

Num(i) == <<i, 0, 0, 0, 0>>

RECURSIVE Norm(_)
Norm(x) ==
    IF x[5] > 0 /\ x[1] % 2 = 0 /\ x[2] % 2 = 0 /\ x[3] % 2 = 0 /\ x[4] % 2 = 0
    THEN Norm(<<x[1] \div 2, x[2] \div 2, x[3] \div 2, x[4] \div 2, x[5] - 1>>)
    ELSE x

Add(x, y) ==
    LET e == Max(x[5], y[5])
        p == Pow2(e - x[5])
        q == Pow2(e - y[5])
    IN  Norm(<<x[1]*p + y[1]*q, x[2]*p + y[2]*q, x[3]*p + y[3]*q,
               x[4]*p + y[4]*q, e>>)

Neg(x) == <<0 - x[1], 0 - x[2], 0 - x[3], 0 - x[4], x[5]>>

Sub(x, y) == Add(x, Neg(y))

Mul(x, y) ==
    Norm(<<x[1]*y[1] + 2*x[2]*y[2] + 3*x[3]*y[3] + 6*x[4]*y[4],
           x[1]*y[2] + x[2]*y[1] + 3*(x[3]*y[4] + x[4]*y[3]),
           x[1]*y[3] + x[3]*y[1] + 2*(x[2]*y[4] + x[4]*y[2]),
           x[1]*y[4] + x[4]*y[1] + x[2]*y[3] + x[3]*y[2],
           x[5] + y[5]>>)

\* np.sqrt(k), for the two arguments the source passes: 2 and 3
sqrt(k) == IF k = 2 THEN <<0, 1, 0, 0, 0>> ELSE <<0, 0, 1, 0, 0>>

\* x / y for a divisor y = m*sqrt(2), m a power of two (the source divides by
\* sqrt(2) and by 2*sqrt(2)):  1/(m*sqrt 2) = sqrt(2)/(2m)
Div(x, y) == Mul(x, <<0, 1, 0, 0, 1 + Lg(y[2])>>)

-----------------------------------------------------------------------------
(* NumPy arrays *)

\* None: no array
None == [buf |-> 0, start |-> 0, step |-> 1, len |-> 0]

IsNone(r) == r.buf = 0

\* the reference to the whole of buffer b, which holds n elements (rows)
Whole(b, n) == [buf |-> b, start |-> 0, step |-> 1, len |-> n]

\* x[start::step]: basic slicing along the first axis.  The result is a view:
\* a reference into the buffer of x.
Slice(x, start, step) ==
    [buf   |-> x.buf,
     start |-> x.start + start * x.step,
     step  |-> x.step * step,
     len   |-> IF x.len <= start THEN 0
               ELSE (x.len - start + step - 1) \div step]

\* the position in its buffer (from 1) of element i (from 1) of x
Pos(x, i) == x.start + 1 + (i - 1) * x.step

\* the elements (rows, for a batch) of x
View(h, x) == [i \in 1..x.len |-> h[x.buf].v[Pos(x, i)]]

\* the number of dimensions of x
Ndim(h, x) == h[x.buf].nd

\* a faulty broadcasting: the longer operand is cut to the shorter one
BroadcastTruncate(p, q) == IF p <= q THEN p ELSE q

\* NumPy's broadcasting of two first-axis lengths; -1 when the shapes do not
\* broadcast (ValueError: operands could not be broadcast together)
BroadcastLen(p, q) ==
    IF p = q THEN p ELSE IF p = 1 THEN q ELSE IF q = 1 THEN p ELSE 0 - 1

Pick(x, i) == x[IF Len(x) = 1 THEN 1 ELSE i]

\* r op s for two rows of numbers, op "+" or "-", with broadcasting
RowOp(op, r, s) ==
    [i \in 1..BroadcastLen(Len(r), Len(s)) |->
        IF op = "+" THEN Add(Pick(r, i), Pick(s, i))
        ELSE Sub(Pick(r, i), Pick(s, i))]

\* x op y for two arrays of nd dimensions, with broadcasting
ArrOp(op, nd, x, y) ==
    IF nd = 1 THEN RowOp(op, x, y)
    ELSE [i \in 1..BroadcastLen(Len(x), Len(y)) |->
            RowOp(op, Pick(x, i), Pick(y, i))]

\* x + y and x - y, element by element
AddArr(nd, x, y) == ArrOp("+", nd, x, y)
SubArr(nd, x, y) == ArrOp("-", nd, x, y)

\* s * x and x / s for a scalar s
ScaleArr(nd, s, x) ==
    IF nd = 1 THEN [i \in 1..Len(x) |-> Mul(s, x[i])]
    ELSE [i \in 1..Len(x) |-> [j \in 1..Len(x[i]) |-> Mul(s, x[i][j])]]

DivArr(nd, x, s) ==
    IF nd = 1 THEN [i \in 1..Len(x) |-> Div(x[i], s)]
    ELSE [i \in 1..Len(x) |-> [j \in 1..Len(x[i]) |-> Div(x[i][j], s)]]

-----------------------------------------------------------------------------
(* double_increments *)

\* a faulty line 55: times[1::2]
new_times_from_1(times) == Slice(times, 1, 2)

\* line 55: new_times = times[::2]
new_times_of(times) == Slice(times, 0, 2)

\* lines 56, 63: x[::2]
even_of(x) == Slice(x, 0, 2)

\* lines 57, 64: x[1::2]
odd_of(x) == Slice(x, 1, 2)

\* line 58: (even_U1s + odd_U1s)/np.sqrt(2)
new_U1s_of(nd, even_U1s, odd_U1s) ==
    DivArr(nd, AddArr(nd, even_U1s, odd_U1s), sqrt(2))

\* faulty lines 65-66: even_U1s + odd_U1s in place of even_U1s - odd_U1s
new_U2s_plus(nd, even_U1s, odd_U1s, even_U2s, odd_U2s) ==
    DivArr(nd,
           AddArr(nd,
                  AddArr(nd,
                         ScaleArr(nd, sqrt(3), AddArr(nd, even_U1s, odd_U1s)),
                         even_U2s),
                  odd_U2s),
           Mul(Num(2), sqrt(2)))

\* lines 65-66: (np.sqrt(3)*(even_U1s - odd_U1s) + even_U2s + odd_U2s)
\*              /(2*np.sqrt(2))
new_U2s_of(nd, even_U1s, odd_U1s, even_U2s, odd_U2s) ==
    DivArr(nd,
           AddArr(nd,
                  AddArr(nd,
                         ScaleArr(nd, sqrt(3), SubArr(nd, even_U1s, odd_U1s)),
                         even_U2s),
                  odd_U2s),
           Mul(Num(2), sqrt(2)))

\* faulty lines 58, 65: the result is stored in place, in the buffer of U1s
in_place(h, nd, v) == Append([h EXCEPT ![2] = [nd |-> nd, v |-> v]],
                             [nd |-> nd, v |-> v])

\* lines 58, 65: the arithmetic yields a new array, in a buffer of its own
fresh(h, nd, v) == Append(h, [nd |-> nd, v |-> v])

\* The call double_increments(times, U1s, U2s) on heap h: the exception it
\* raises ("none" when it returns), the heap it leaves and the tuple it
\* returns.
double_increments(h, times, U1s, U2s) ==
    LET new_times == new_times_of(times)
        nd        == Ndim(h, U1s)
        even_U1s  == View(h, even_of(U1s))
        odd_U1s   == View(h, odd_of(U1s))
    IN  IF BroadcastLen(Len(even_U1s), Len(odd_U1s)) < 0
        THEN [exc |-> "ValueError", heap |-> h, out |-> <<>>]
        ELSE
        LET v1      == new_U1s_of(nd, even_U1s, odd_U1s)
            h1      == fresh(h, nd, v1)
            new_U1s == Whole(Len(h1), Len(v1))
        IN  IF IsNone(U2s)
            THEN [exc |-> "none", heap |-> h1, out |-> <<new_times, new_U1s>>]
            ELSE
            LET even_U2s == View(h, even_of(U2s))
                odd_U2s  == View(h, odd_of(U2s))
                v2       == new_U2s_of(nd, even_U1s, odd_U1s, even_U2s, odd_U2s)
                h2       == fresh(h1, nd, v2)
                new_U2s  == Whole(Len(h2), Len(v2))
            IN  [exc |-> "none", heap |-> h2,
                 out |-> <<new_times, new_U1s, new_U2s>>]

-----------------------------------------------------------------------------
(* A caller of double_increments *)

\* the local variables of calc_rate before it runs
NoLocals ==
    [U1s |-> None, U2s |-> None,
     times_2 |-> None, U1s_2 |-> None, U2s_2 |-> None,
     times_4 |-> None, U1s_4 |-> None, U2s_4 |-> None,
     rhos |-> <<0, 0>>, rhos_2 |-> <<0, 0>>, rhos_4 |-> <<0, 0>>]

\* an evenly spaced grid of n + 1 times: 0, 1, ..., n
Grid(n) == [nd |-> 1, v |-> [i \in 1..(n + 1) |-> Num(i - 1)]]

\* the 1-D arrays of n samples
Samples(n) == {[nd |-> 1, v |-> [i \in 1..n |-> Num(f[i])]] : f \in [1..n -> Vals]}

\* the batches of N rows of n samples
Batches(N, n) ==
    {[nd |-> 2, v |-> [r \in 1..N |-> [i \in 1..n |-> Num(f[r][i])]]] :
        f \in [1..N -> [1..n -> Vals]]}

\* the batches paired with a batch u as its U2s: u itself, and u with the
\* samples exchanged (0 for 1)
Companions(u) ==
    {u, [nd |-> 2,
         v |-> [r \in 1..Len(u.v) |->
                  [i \in 1..Len(u.v[r]) |-> Sub(Num(1), u.v[r][i])]]]}

\* an argument the caller leaves out
Omitted == [nd |-> 0, v |-> <<>>]

\* the heap a caller builds: buffer 1 the times, then the arrays it supplies
HeapOf(grid, u1, u2) ==
    SelectSeq(<<grid, u1, u2>>, LAMBDA b : b # Omitted)

\* the caller's arguments for the heap it built
ArgsOf(rho, grid, u1, u2) ==
    [rho_0 |-> rho,
     times |-> Whole(1, Len(grid.v)),
     U1s   |-> IF u1 = Omitted THEN None ELSE Whole(2, Len(u1.v)),
     U2s   |-> IF u2 = Omitted THEN None
               ELSE Whole(IF u1 = Omitted THEN 2 ELSE 3, Len(u2.v))]

InitRefine ==
    /\ \/ \E n \in 0..MaxN :
            \E u1 \in Samples(n) : \E u2 \in Samples(n) \cup {Omitted} :
               /\ heap = HeapOf(Grid(n), u1, u2)
               /\ args = ArgsOf(<<0, 0>>, Grid(n), u1, u2)
       \/ \E N \in 1..MaxRows, n \in 1..MaxCols :
            \E u1 \in Batches(N, n) : \E u2 \in Companions(u1) \cup {Omitted} :
               /\ heap = HeapOf(Grid(n), u1, u2)
               /\ args = ArgsOf(<<0, 0>>, Grid(n), u1, u2)
    /\ heap0 = heap
    /\ pc = "idle"
    /\ ret = [exc |-> "none", out |-> <<>>]
    /\ locals = NoLocals
    /\ calls = <<>>
    /\ memo = <<>>
    /\ integDet = TRUE
    /\ rng = 0
    /\ outcomes = <<>>

\* the caller calls double_increments(times, U1s, U2s)
CallDoubleIncrements ==
    /\ pc = "idle"
    /\ LET r == double_increments(heap, args.times, args.U1s, args.U2s)
       IN  /\ heap' = r.heap
           /\ ret' = [exc |-> r.exc, out |-> r.out]
    /\ pc' = "returned"
    /\ UNCHANGED <<heap0, args, rateVars>>

\* heap h after the assignment x[i] = val (for a batch: x[i][:] = val)
Store(h, x, i, val) ==
    LET b == h[x.buf]
        new == IF b.nd = 1 THEN val
               ELSE [j \in 1..Len(b.v[Pos(x, i)]) |-> val]
    IN  [h EXCEPT ![x.buf] = [b EXCEPT !.v = [b.v EXCEPT ![Pos(x, i)] = new]]]

\* the caller writes into an array double_increments returned
WriteOutput ==
    /\ pc = "returned"
    /\ ret.exc = "none"
    /\ \E o \in 1..Len(ret.out) : \E i \in 1..ret.out[o].len :
          heap' = Store(heap, ret.out[o], i, Num(7))
    /\ pc' = "written"
    /\ UNCHANGED <<heap0, args, ret, rateVars>>

NextRefine == CallDoubleIncrements \/ WriteOutput

SpecRefine == InitRefine /\ [][NextRefine]_vars

-----------------------------------------------------------------------------
(* calc_rate *)

\* the largest number of increments of the grid handed to calc_rate
MaxIncrements == 8
\* the noise handed to (or drawn by) calc_rate repeats with a period up to this
MaxPeriod == 2

\* the initial states handed to calc_rate
Rho0s == {<<1, 0>>, <<0, 1>>}

\* the final states (vec_soln[-1]) an integrator may produce
FinalStates == {<<0, 0>>, <<1, -1>>, <<3, -1>>, <<0, 3>>}

\* the exceptions an integrator may raise
IntegratorErrors == {"RuntimeError", "ZeroDivisionError"}

\* n samples, as supplied by the caller or drawn by np.random.randn(n)
Noise(n) ==
    {[nd |-> 1, v |-> [i \in 1..n |-> Num(IF i % m = 0 THEN 1 ELSE 0)]] :
        m \in 1..MaxPeriod}

Abs(i) == IF i < 0 THEN 0 - i ELSE i

RECURSIVE SumAbs(_, _)
SumAbs(vec, i) == IF i = 0 THEN 0 ELSE Abs(vec[i]) + SumAbs(vec, i - 1)

RECURSIVE Sum(_, _)
Sum(vec, i) == IF i = 0 THEN 0 ELSE vec[i] + Sum(vec, i - 1)

\* faulty lines 11-12: |np.sum(vec)|, the absolute value taken after the sum
l1_norm_signed(vec) == Abs(Sum(vec, Len(vec)))

\* lines 11-12: np.sum(np.abs(vec))
l1_norm(vec) == SumAbs(vec, Len(vec))

\* x - y for two states
VecSub(x, y) == [i \in 1..Len(x) |-> x[i] - y[i]]

RECURSIVE Gcd(_, _)
Gcd(i, j) == IF j = 0 THEN i ELSE Gcd(j, i % j)

(* Floating-point results of the logarithms.  [kind |-> "log", num, den]    *)
(* stands for the logarithm of the positive rational num/den (in lowest    *)
(* terms) to the base named by `base` ("e" or "2"); the other kinds are    *)
(* the IEEE values -inf, +inf and nan.                                     *)
Real(kind, base, num, den) ==
    [kind |-> kind, base |-> base, num |-> num, den |-> den]

NegInf == Real("-inf", "", 0, 1)
PosInf == Real("+inf", "", 0, 1)
NaN    == Real("nan", "", 0, 1)
LogOf(base, num, den) ==
    Real("log", base, num \div Gcd(num, den), den \div Gcd(num, den))

\* np.log(x) for x >= 0 under the error setting "warn": log(0) is -inf
log(x) == IF x = 0 THEN NegInf ELSE LogOf("e", x, 1)

\* u - v for two results of np.log
LogSub(u, v) ==
    IF u.kind = "log" /\ v.kind = "log" THEN LogOf("e", u.num * v.den, u.den * v.num)
    ELSE IF u.kind = "-inf" /\ v.kind = "-inf" THEN NaN
    ELSE IF u.kind = "-inf" THEN NegInf
    ELSE PosInf

\* u / np.log(2)
DivLog2(u) == IF u.kind = "log" THEN Real("log", "2", u.num, u.den) ELSE u

\* faulty lines 110-111: the two distances exchanged
rate_of_swapped(rhos, rhos_2, rhos_4) ==
    DivLog2(LogSub(log(l1_norm(VecSub(rhos_2, rhos))),
                   log(l1_norm(VecSub(rhos_4, rhos_2)))))

\* lines 110-111: (np.log(l1_norm(rhos_4[-1] - rhos_2[-1])) -
\*                 np.log(l1_norm(rhos_2[-1] - rhos[-1])))/np.log(2)
rate_of(rhos, rhos_2, rhos_4) ==
    DivLog2(LogSub(log(l1_norm(VecSub(rhos_4, rhos_2))),
                   log(l1_norm(VecSub(rhos_2, rhos)))))

\* lines 110-111 under np.seterr(all='raise'): np.log(0) raises
\* FloatingPointError instead of returning -inf with a RuntimeWarning
log_raises(mode, rhos, rhos_2, rhos_4) ==
    /\ mode = "raise"
    /\ \/ l1_norm(VecSub(rhos_4, rhos_2)) = 0
       \/ l1_norm(VecSub(rhos_2, rhos)) = 0

\* faulty lines 97, 99: the noise is drawn whether or not it was supplied
NeedsDrawAlways(x) == TRUE

\* lines 97, 99: `if U1s is None`
NeedsDraw(x) == IsNone(x)

\* faulty lines 107-109: the exception is swallowed and calc_rate goes on
on_integrate_raise_swallow(next) == next

\* lines 107-109: an exception of integrate is not caught: calc_rate ends
on_integrate_raise(next) == "cr_done"

Init ==
    /\ \E n \in 0..MaxIncrements : \E rho \in Rho0s :
         \E u1 \in Noise(n) \cup {Omitted}, u2 \in Noise(n) \cup {Omitted} :
            /\ heap = HeapOf(Grid(n), u1, u2)
            /\ args = ArgsOf(rho, Grid(n), u1, u2)
    /\ heap0 = heap
    /\ pc = "cr_call"
    /\ ret = [exc |-> "none", out |-> <<>>]
    /\ locals = NoLocals
    /\ calls = <<>>
    /\ memo = <<>>
    /\ integDet \in BOOLEAN
    /\ rng = 0
    /\ outcomes = <<>>

\* how a calc_rate invocation ends: it raises e, or returns rate r; seterr is
\* the floating-point error setting under which lines 110-111 ran ("" when
\* they did not run)
Raised(e, mode) == [kind |-> "raised", exc |-> e, rate |-> NaN, seterr |-> mode]
Returned(r, mode) ==
    [kind |-> "returned", exc |-> "none", rate |-> r, seterr |-> mode]

\* lines 96-105: calc_rate is called; it draws the noise the caller left out
\* and derives the level-2 and level-4 grids and noise
Enter ==
    /\ pc = "cr_call"
    /\ Len(outcomes) < 2
    /\ \E increments \in {args.times.len - 1} :
       \E d1 \in IF NeedsDraw(args.U1s) THEN Noise(increments) ELSE {Omitted} :
       \E d2 \in IF NeedsDraw(args.U2s) THEN Noise(increments) ELSE {Omitted} :
       \E h \in {SelectSeq(<<d1, d2>>, LAMBDA b : b # Omitted)} :
       \E U1s \in {IF d1 = Omitted THEN args.U1s
                   ELSE Whole(Len(heap) + 1, increments)} :
       \E U2s \in {IF d2 = Omitted THEN args.U2s
                   ELSE Whole(Len(heap) + Len(h), increments)} :
       \E r2 \in {double_increments(heap \o h, args.times, U1s, U2s)} :
         /\ rng' = rng + Len(h)
         /\ calls' = <<>>
         /\ IF r2.exc # "none"
            THEN /\ heap' = r2.heap
                 /\ locals' = [NoLocals EXCEPT !.U1s = U1s, !.U2s = U2s]
                 /\ outcomes' = Append(outcomes, Raised(r2.exc, ""))
                 /\ pc' = "cr_done"
            ELSE
            \E r4 \in {double_increments(r2.heap, r2.out[1], r2.out[2],
                                         r2.out[3])} :
              /\ heap' = r4.heap
              /\ IF r4.exc # "none"
                 THEN /\ locals' = [NoLocals EXCEPT !.U1s = U1s, !.U2s = U2s,
                                      !.times_2 = r2.out[1],
                                      !.U1s_2 = r2.out[2], !.U2s_2 = r2.out[3]]
                      /\ outcomes' = Append(outcomes, Raised(r4.exc, ""))
                      /\ pc' = "cr_done"
                 ELSE /\ locals' = [NoLocals EXCEPT !.U1s = U1s, !.U2s = U2s,
                                      !.times_2 = r2.out[1],
                                      !.U1s_2 = r2.out[2], !.U2s_2 = r2.out[3],
                                      !.times_4 = r4.out[1],
                                      !.U1s_4 = r4.out[2], !.U2s_4 = r4.out[3]]
                      /\ outcomes' = outcomes
                      /\ pc' = "cr_107"
    /\ UNCHANGED <<heap0, args, ret, memo, integDet>>

\* integrator.integrate(rho_0, times, U1s, U2s): the integrator answers
\* with a final state or raises; a deterministic one answers equal
\* arguments equally
Key(rho_0, times, U1s, U2s) ==
    <<rho_0, View(heap, times), View(heap, U1s), View(heap, U2s)>>

Answers(key) ==
    IF integDet /\ key \in DOMAIN memo THEN {memo[key]}
    ELSE {[raised |-> FALSE, exc |-> "none", final |-> s] : s \in FinalStates}
         \cup {[raised |-> TRUE, exc |-> e, final |-> <<0, 0>>] :
                 e \in IntegratorErrors}

Integrate(at, next, times, U1s, U2s, into) ==
    /\ pc = at
    /\ LET key == Key(args.rho_0, times, U1s, U2s)
       IN  \E a \in Answers(key) :
             /\ calls' = Append(calls, [rho_0 |-> key[1], times |-> key[2],
                                        U1s |-> key[3], U2s |-> key[4],
                                        answer |-> a])
             /\ memo' = IF integDet THEN (key :> a) @@ memo ELSE memo
             /\ IF a.raised
                THEN /\ pc' = on_integrate_raise(next)
                     /\ outcomes' = Append(outcomes, Raised(a.exc, ""))
                     /\ locals' = locals
                ELSE /\ pc' = next
                     /\ outcomes' = outcomes
                     /\ locals' = [locals EXCEPT ![into] = a.final]
    /\ UNCHANGED <<heap, heap0, args, ret, integDet, rng>>

\* line 107
Integrate107 ==
    Integrate("cr_107", "cr_108", args.times, locals.U1s, locals.U2s, "rhos")

\* line 108
Integrate108 ==
    Integrate("cr_108", "cr_109", locals.times_2, locals.U1s_2, locals.U2s_2,
              "rhos_2")

\* a faulty line 109: the level-2 triple handed to the third run
Integrate109_level2 ==
    Integrate("cr_109", "cr_110", locals.times_2, locals.U1s_2, locals.U2s_2,
              "rhos_4")

\* line 109
Integrate109 ==
    Integrate("cr_109", "cr_110", locals.times_4, locals.U1s_4, locals.U2s_4,
              "rhos_4")

\* lines 110-113, under the floating-point error setting in force
ComputeRate ==
    /\ pc = "cr_110"
    /\ \E mode \in {"warn", "raise"} :
         outcomes' = Append(outcomes,
            IF log_raises(mode, locals.rhos, locals.rhos_2, locals.rhos_4)
            THEN Raised("FloatingPointError", mode)
            ELSE Returned(rate_of(locals.rhos, locals.rhos_2, locals.rhos_4), mode))
    /\ pc' = "cr_done"
    /\ UNCHANGED <<heap, heap0, args, ret, locals, calls, memo, integDet, rng>>

\* the caller of a deterministic integrator calls calc_rate again with the
\* arguments of its first call; the random source may have been used since
CallAgain ==
    /\ pc = "cr_done"
    /\ Len(outcomes) = 1
    /\ integDet
    /\ ~IsNone(args.U1s) /\ ~IsNone(args.U2s)
    /\ \E used \in 0..1 : rng' = rng + used
    /\ pc' = "cr_call"
    /\ UNCHANGED <<heap, heap0, args, ret, locals, calls, memo, integDet,
                   outcomes>>

Next ==
    \/ Enter
    \/ Integrate107
    \/ Integrate108
    \/ Integrate109
    \/ ComputeRate
    \/ CallAgain

Spec == Init /\ [][Next]_vars

\* a caller of either function
SpecAll == (InitRefine \/ Init) /\ [][NextRefine \/ Next]_vars

-----------------------------------------------------------------------------
(* Properties of double_increments (checked under SpecRefine) *)

\* the caller's arrays, as built
Times0 == heap0[1].v
U1s0 == heap0[args.U1s.buf].v
U2s0 == heap0[args.U2s.buf].v

\* the number of increments of the grid
N0 == args.times.len - 1

\* double_increments was called on 1-D noise
Returned1D == pc = "returned" /\ heap0[2].nd = 1

\* double_increments was called on a batch of rows
Returned2D == pc = "returned" /\ heap0[2].nd = 2

\* the arrays double_increments returned
Out(o) == View(heap, ret.out[o])

\* C1: for every even n, a grid of n+1 times and 1-D U1 (and optional U2) of
\* length n, double_increments returns times' = the elements of times at
\* indices 0, 2, ..., n (n/2 + 1 of them) and U1' (and U2') of length n/2.
C1_LengthLaw ==
    (Returned1D /\ N0 % 2 = 0) =>
        /\ ret.exc = "none"
        /\ Len(ret.out) = (IF IsNone(args.U2s) THEN 2 ELSE 3)
        /\ Out(1) = [k \in 1..(N0 \div 2 + 1) |-> Times0[2 * k - 1]]
        /\ \A o \in 2..Len(ret.out) : Len(Out(o)) = N0 \div 2

C1_Witness ==
    Returned1D /\ N0 = 4 /\ ~IsNone(args.U2s) /\ ret.exc = "none"

\* C2: for every coarse index k, U1'[k] = (U1[2k] + U1[2k+1])/sqrt(2) and,
\* when U2 is supplied, U2'[k] = (sqrt(3)*(U1[2k] - U1[2k+1]) + U2[2k] +
\* U2[2k+1])/(2*sqrt(2)): output element k is fixed by that pair of inputs
\* alone.  (Indices from 0 in the claim, from 1 here; the divisions are
\* stated as multiplications.)
C2_PairFormulas ==
    (Returned1D /\ ret.exc = "none") =>
        \A k \in 1..(N0 \div 2) :
            /\ Mul(Out(2)[k], sqrt(2)) = Add(U1s0[2 * k - 1], U1s0[2 * k])
            /\ ~IsNone(args.U2s) =>
                 Mul(Out(3)[k], Mul(Num(2), sqrt(2))) =
                    Add(Add(Mul(sqrt(3), Sub(U1s0[2 * k - 1], U1s0[2 * k])),
                            U2s0[2 * k - 1]),
                        U2s0[2 * k])

C2_Witness ==
    /\ Returned1D /\ ret.exc = "none" /\ N0 = 4 /\ ~IsNone(args.U2s)
    /\ U1s0[3] # U1s0[4] /\ U2s0[3] # U2s0[4] /\ U1s0[1] # U1s0[3]

\* C3: a batch U1 of N rows of length n is refined row by row: N rows come
\* back, each of length n/2, and element k of row r is made of elements 2k
\* and 2k+1 of input row r.
C3_RowWise ==
    (Returned2D /\ N0 % 2 = 0) =>
        /\ ret.exc = "none"
        /\ Len(Out(2)) = Len(U1s0)
        /\ \A r \in 1..Len(Out(2)) :
             /\ Len(Out(2)[r]) = N0 \div 2
             /\ \A k \in 1..(N0 \div 2) :
                  Mul(Out(2)[r][k], sqrt(2)) =
                     Add(U1s0[r][2 * k - 1], U1s0[r][2 * k])

\* C7 as claimed: for every odd n, double_increments raises no error.
C7_OddNeverRaises ==
    (Returned1D /\ N0 % 2 = 1) => ret.exc = "none"

\* C7 as amended: for odd n = 1 and n = 3 double_increments raises no error
\* and returns a truncated or misaligned result (n = 1: one time and no
\* increment; n = 3: two times and two increments, the second made of U1[2]
\* and U1[1]); for every odd n >= 5 the addition of U1s[::2] and U1s[1::2]
\* raises ValueError.
C7_OddRaisesFromFive ==
    (Returned1D /\ N0 % 2 = 1) =>
        IF N0 <= 3
        THEN /\ ret.exc = "none"
             /\ Out(1) = [k \in 1..((N0 + 1) \div 2) |-> Times0[2 * k - 1]]
             /\ Len(Out(2)) = (IF N0 = 1 THEN 0 ELSE 2)
             /\ N0 = 3 => Mul(Out(2)[2], sqrt(2)) = Add(U1s0[3], U1s0[2])
        ELSE ret.exc = "ValueError" /\ ret.out = <<>>

C7_Witness ==
    Returned1D /\ N0 = 5 /\ ret.exc = "ValueError"

-----------------------------------------------------------------------------
(* Properties of both functions (checked under SpecAll) *)

\* the caller's buffers hold what the caller put there
InputsIntact == \A b \in 1..Len(heap0) : heap[b] = heap0[b]

\* C8 as claimed: the caller's sequences keep their contents, and no returned
\* sequence aliases one of them: a later write through an output leaves the
\* inputs as they were.
C8_NoMutationNoAlias == InputsIntact

\* C8 as amended: double_increments and calc_rate leave the caller's times,
\* U1 and U2 with the same contents when they return, and rho_0 is what every
\* integrate call receives; U1' and U2' are fresh arrays sharing no buffer
\* with an input, so a write through them changes no input; times' is not
\* fresh: it is a view of the caller's times (times[::2]), and a later write
\* through it changes times.
C8_FreshNoiseSharedTimes ==
    /\ pc # "written" => InputsIntact
    /\ \A i \in 1..Len(calls) : calls[i].rho_0 = args.rho_0
    /\ (pc \in {"returned", "written"} /\ ret.exc = "none") =>
          /\ ret.out[1].buf = args.times.buf
          /\ \A o \in 2..Len(ret.out) : ret.out[o].buf > Len(heap0)
    /\ pc = "written" => \A b \in 2..Len(heap0) : heap[b] = heap0[b]
    /\ pc \in {"cr_107", "cr_108", "cr_109", "cr_110"} =>
          /\ locals.times_2.buf = args.times.buf
          /\ locals.times_4.buf = args.times.buf
          /\ \A f \in {"U1s_2", "U2s_2", "U1s_4", "U2s_4"} :
                locals[f].buf > Len(heap0)

C8_Witness ==
    pc = "written" /\ heap[1] # heap0[1] /\ ~IsNone(args.U2s) /\ N0 = 4

-----------------------------------------------------------------------------
(* Properties of calc_rate (checked under Spec) *)

\* how the latest invocation ended
Last(q) == q[Len(q)]

\* the latest invocation has ended
Ended == pc = "cr_done"

\* the three runs of the latest invocation all answered
ThreeRuns == Len(calls) = 3 /\ ~calls[3].answer.raised

\* the distance between two final states: the sum of the absolute values of
\* the differences of their components (the states have two components)
Dist(x, y) ==
    (IF x[1] >= y[1] THEN x[1] - y[1] ELSE y[1] - x[1])
    + (IF x[2] >= y[2] THEN x[2] - y[2] ELSE y[2] - x[2])

\* d1 and d2 of the latest invocation
D1 == Dist(calls[3].answer.final, calls[2].answer.final)
D2 == Dist(calls[2].answer.final, calls[1].answer.final)

\* the triple of integrate call d is what double_increments makes of the
\* triple of integrate call c
RefinesTo(c, d) ==
    \E r \in {double_increments(<<[nd |-> 1, v |-> c.times],
                                  [nd |-> 1, v |-> c.U1s],
                                  [nd |-> 1, v |-> c.U2s]>>,
                                Whole(1, Len(c.times)), Whole(2, Len(c.U1s)),
                                Whole(3, Len(c.U2s)))} :
        /\ r.exc = "none"
        /\ d.times = View(r.heap, r.out[1])
        /\ d.U1s = View(r.heap, r.out[2])
        /\ d.U2s = View(r.heap, r.out[3])

\* C4: a successful calc_rate on n divisible by 4 runs the integrator exactly
\* three times, each with rho_0: on (times, U1, U2), then on the refiner's
\* output for that triple (grid times[::2]), then on the refiner's output
\* for the level-2 triple (grid times[::4]).
C4_ThreeNestedRuns ==
    N0 % 4 = 0 =>
        /\ Len(calls) <= 3
        /\ (Ended /\ Last(outcomes).kind = "returned") => Len(calls) = 3
        /\ \A i \in 1..Len(calls) : calls[i].rho_0 = args.rho_0
        /\ Len(calls) >= 1 =>
              /\ calls[1].times = Times0
              /\ ~IsNone(args.U1s) => calls[1].U1s = U1s0
              /\ ~IsNone(args.U2s) => calls[1].U2s = U2s0
              /\ Len(calls[1].U1s) = N0 /\ Len(calls[1].U2s) = N0
        /\ Len(calls) >= 2 =>
              /\ RefinesTo(calls[1], calls[2])
              /\ calls[2].times =
                    [k \in 1..(N0 \div 2 + 1) |-> Times0[2 * k - 1]]
        /\ Len(calls) >= 3 =>
              /\ RefinesTo(calls[2], calls[3])
              /\ calls[3].times =
                    [k \in 1..(N0 \div 4 + 1) |-> Times0[4 * k - 3]]

C4_Witness ==
    /\ Ended /\ Last(outcomes).kind = "returned" /\ N0 = 4 /\ Len(calls) = 3
    /\ ~IsNone(args.U1s) /\ IsNone(args.U2s)

\* C5 as claimed: if d1 or d2 is exactly zero, calc_rate ends in an error and
\* returns no rate.
C5_ZeroDistanceRaises ==
    (Ended /\ ThreeRuns /\ (D1 = 0 \/ D2 = 0)) => Last(outcomes).kind = "raised"

\* C5 as amended: if d1 or d2 is exactly zero, calc_rate under NumPy's
\* default floating-point error setting ("warn") raises nothing and returns
\* a non-finite rate: nan when both are zero, -inf when only d1 is, +inf when
\* only d2 is; it raises (FloatingPointError) only under the setting
\* "raise".  It never returns a finite rate.
C5_ZeroDistanceNonFinite ==
    (Ended /\ ThreeRuns /\ (D1 = 0 \/ D2 = 0)) =>
        IF Last(outcomes).seterr = "warn"
        THEN /\ Last(outcomes).kind = "returned"
             /\ Last(outcomes).rate.kind =
                   (IF D1 = 0 /\ D2 = 0 THEN "nan"
                    ELSE IF D1 = 0 THEN "-inf" ELSE "+inf")
        ELSE /\ Last(outcomes).seterr = "raise"
             /\ Last(outcomes).kind = "raised"
             /\ Last(outcomes).exc = "FloatingPointError"

C5_Witness ==
    /\ Ended /\ ThreeRuns /\ D1 = 0 /\ D2 > 0
    /\ Last(outcomes).kind = "returned" /\ N0 = 4

\* C6: if the integrator raises in one of the three runs, that exception is
\* how calc_rate ends: no rate is returned, the run is not repeated and no
\* later run is made (at most three runs, none after a failure).
C6_FailurePropagates ==
    /\ Len(calls) <= 3
    /\ \A i \in 1..Len(calls) :
          calls[i].answer.raised =>
             /\ i = Len(calls)
             /\ pc \in {"cr_done", "cr_call"}
             /\ Last(outcomes).kind = "raised"
             /\ Last(outcomes).exc = calls[i].answer.exc

C6_Witness ==
    Ended /\ Len(calls) = 2 /\ calls[2].answer.raised /\ N0 = 4

\* the largest order p of the claim's h^p
MaxOrder == 2

\* the rate p, for an integer p
Order(p) ==
    IF p >= 0 THEN Real("log", "2", Pow2(p), 1)
    ELSE Real("log", "2", 1, Pow2(0 - p))

\* C9: calc_rate returns log2(d1/d2), d1 the L1 distance of the final states
\* of the twice- and once-coarsened runs and d2 that of the once-coarsened
\* and finest runs; when d1 = 2^p * d2 with d2 > 0 the rate is p.
C9_RateIsLog2Ratio ==
    (Ended /\ ThreeRuns /\ Last(outcomes).kind = "returned" /\ D1 > 0 /\ D2 > 0)
    => LET rate == Last(outcomes).rate
       IN  /\ rate.kind = "log" /\ rate.base = "2"
           /\ rate.num * D2 = rate.den * D1
           /\ Gcd(rate.num, rate.den) = 1
           /\ \A p \in 0..MaxOrder :
                 /\ D1 = Pow2(p) * D2 => rate = Order(p)
                 /\ D1 * Pow2(p) = D2 => rate = Order(0 - p)

C9_Witness ==
    /\ Ended /\ ThreeRuns /\ Last(outcomes).kind = "returned"
    /\ D2 > 0 /\ D1 = 2 * D2 /\ N0 = 4
    /\ Last(outcomes).rate = Order(1)

\* C10: two calc_rate calls given the same times, U1 and U2 and an integrator
\* whose output is a function of its arguments return the same rate (and
\* end alike under the same floating-point error setting), whatever was drawn
\* from the random source in between; calc_rate itself draws nothing.
C10_SameNoiseSameRate ==
    (Len(outcomes) = 2 /\ integDet /\ ~IsNone(args.U1s) /\ ~IsNone(args.U2s)) =>
        /\ (outcomes[1].kind = "returned" /\ outcomes[2].kind = "returned")
              => outcomes[1].rate = outcomes[2].rate
        /\ outcomes[1].seterr = outcomes[2].seterr => outcomes[1] = outcomes[2]
        /\ outcomes[1].kind = "returned" => outcomes[2].seterr # ""
        /\ rng <= 1

C10_Witness ==
    /\ Len(outcomes) = 2 /\ integDet /\ rng = 1 /\ N0 = 4
    /\ outcomes[2].kind = "returned" /\ outcomes[2].rate.kind = "log"
    /\ heap0[2] # heap0[3]

====
